---- MODULE Spec2Model ----
(***************************************************************************)
(* Ownership / mutation state machine of CowRc<T> and WeakCowRc<T>         *)
(* (src/src/rc.rs).  A CowRc wraps a std::rc::Rc, a WeakCowRc wraps a      *)
(* std::rc::Weak; every operation of the crate forwards to the Rc / Weak   *)
(* primitive, whose counter protocol is modelled here: an allocation       *)
(* carries `strong`, `weak` (which includes the one implicit weak          *)
(* reference held collectively by the strong pointers) and the value.      *)
(*                                                                         *)
(* Pointers, observers and allocations are named in order of creation and  *)
(* a name is never used twice, so a run creates at most MaxPtrs pointers,  *)
(* MaxObs observers and MaxAllocs allocations.                             *)
(***************************************************************************)
EXTENDS Integers, FiniteSets, Sequences, TLC

\* ------------------------------------------------------------------ bounds
MaxPtrs == 2
MaxObs == 1
MaxAllocs == 3
MaxValue == 1

Ptrs == 1..MaxPtrs
Obs == 1..MaxObs
Allocs == 1..MaxAllocs
Values == 0..MaxValue

\* Weak::new(): an observer that references no allocation.
Dangling == 0
\* The value slot of an allocation whose value was dropped or moved out.
NoValue == -1

\* The writes made through the mutable view: `*p += 1` and `*p *= 2`.
MutOps == {"inc", "dbl"}

VARIABLES
    heap,       \* allocations and the handles into them
    last,       \* the operation that produced this state, with its result
    orphaned    \* allocations whose sole owner took mutable access while observed

vars == <<heap, last, orphaned>>

\* ------------------------------------------------------------ heap access
LivePtrs(h) == DOMAIN h.ptr
LiveObs(h) == DOMAIN h.obs

\* Rc::strong_count
strong_count(h, a) == h.strong[a]

\* Rc::weak_count: the weak field minus the implicit weak reference that
\* exists as long as a strong pointer does.
weak_count(h, a) == IF h.strong[a] > 0 THEN h.weak[a] - 1 ELSE h.weak[a]

\* Deref for CowRc: the value of the referenced allocation.
deref(h, p) == h.val[h.ptr[p]]

\* Defect: an observed allocation is reported as needing a clone.
needs_cloning_to_mutate_counts_weak(h, p) ==
    strong_count(h, h.ptr[p]) > 1 \/ weak_count(h, h.ptr[p]) > 0

\* CowRc::needs_cloning_to_mutate
needs_cloning_to_mutate(h, p) == strong_count(h, h.ptr[p]) > 1

\* Defect: the observers are not looked at.
is_unique_ignores_observers(h, p) == ~needs_cloning_to_mutate(h, p)

\* CowRc::is_unique
is_unique(h, p) == ~needs_cloning_to_mutate(h, p) /\ weak_count(h, h.ptr[p]) = 0

\* The names the next pointer, observer and allocation get.
FreshPtr(h) == h.np + 1
FreshObs(h) == h.no + 1
FreshAlloc(h) == h.na + 1

Remove(fn, x) == [y \in (DOMAIN fn) \ {x} |-> fn[y]]
Bind(fn, x, y) == [z \in (DOMAIN fn) \cup {x} |-> IF z = x THEN y ELSE fn[z]]

\* A new CowRc named p on allocation a.
BindPtr(h, p, a) == [h EXCEPT !.ptr = Bind(h.ptr, p, a), !.np = p]

\* A new WeakCowRc named w on allocation a (or on none).
BindObs(h, w, a) == [h EXCEPT !.obs = Bind(h.obs, w, a), !.no = w]

\* Rc::new: RcBox { strong: 1, weak: 1, value }
RcNew(h, a, v) ==
    [h EXCEPT !.strong[a] = 1, !.weak[a] = 1, !.val[a] = v,
              !.slot[a] = "value", !.mem[a] = "live", !.na = a]

\* The memory of the block is given back once the weak field reaches zero.
Dealloc(h, a) == [h EXCEPT !.mem[a] = "reclaimed"]

\* Drop for Weak on allocation a: dec_weak, deallocate at zero.
WeakRelease(h, a) ==
    LET h1 == [h EXCEPT !.weak[a] = @ - 1]
    IN  IF h1.weak[a] = 0 THEN Dealloc(h1, a) ELSE h1

\* Defect: the block is given back with the last strong reference, whatever
\* the observers.
StrongRelease_frees_block(h, a) ==
    LET h1 == [h EXCEPT !.strong[a] = @ - 1]
    IN  IF h1.strong[a] = 0
        THEN Dealloc([h1 EXCEPT !.val[a] = NoValue, !.slot[a] = "dropped",
                                !.weak[a] = @ - 1], a)
        ELSE h1

\* Drop for Rc on allocation a: dec_strong; at zero the value is dropped in
\* place and the implicit weak reference is released.
StrongRelease(h, a) ==
    LET h1 == [h EXCEPT !.strong[a] = @ - 1]
    IN  IF h1.strong[a] = 0
        THEN WeakRelease([h1 EXCEPT !.val[a] = NoValue, !.slot[a] = "dropped"], a)
        ELSE h1

\* `*view += 1`, `*view *= 2` on a value of the model's width.
Apply(f, v) ==
    IF f = "inc" THEN (v + 1) % (MaxValue + 1) ELSE (v * 2) % (MaxValue + 1)

\* ------------------------------------------------------------ operations
\* CowRc::new
new(h, p, v) == BindPtr(RcNew(h, FreshAlloc(h), v), p, FreshAlloc(h))

\* Defect: the clone duplicates the value into an allocation of its own.
clone_deep(h, p, q) ==
    BindPtr(RcNew(h, FreshAlloc(h), deref(h, p)), q, FreshAlloc(h))

\* Clone for CowRc (derived): Rc::clone, inc_strong on the same allocation.
clone(h, p, q) ==
    LET a == h.ptr[p]
    IN  BindPtr([h EXCEPT !.strong[a] = @ + 1], q, a)

\* Drop of a CowRc.
drop(h, p) ==
    StrongRelease([h EXCEPT !.ptr = Remove(h.ptr, p)], h.ptr[p])

\* Defect: the observer is counted as a strong reference.
downgrade_counts_strong(h, p, w) ==
    LET a == h.ptr[p]
    IN  BindObs([h EXCEPT !.strong[a] = @ + 1], w, a)

\* Defect: the observer is handed out without being counted.
downgrade_uncounted(h, p, w) == BindObs(h, w, h.ptr[p])

\* CowRc::downgrade: Rc::downgrade, inc_weak on the same allocation.
downgrade(h, p, w) ==
    LET a == h.ptr[p]
    IN  BindObs([h EXCEPT !.weak[a] = @ + 1], w, a)

\* WeakCowRc::new
weak_new(h, w) == BindObs(h, w, Dangling)

\* Drop of a WeakCowRc.
weak_drop(h, w) ==
    LET a == h.obs[w]
        h1 == [h EXCEPT !.obs = Remove(h.obs, w)]
    IN  IF a = Dangling THEN h1 ELSE WeakRelease(h1, a)

\* Defect: the strong count is not looked at.
upgrade_ok_any_allocation(h, w) == h.obs[w] # Dangling

\* Weak::upgrade succeeds iff the observer references an allocation whose
\* strong field is not zero.
upgrade_ok(h, w) == h.obs[w] # Dangling /\ h.strong[h.obs[w]] > 0

\* WeakCowRc::upgrade, the Some case: inc_strong, a new CowRc.
upgrade(h, w, q) ==
    LET a == h.obs[w]
    IN  BindPtr([h EXCEPT !.strong[a] = @ + 1], q, a)

\* Defect: the clone branch overwrites the old Rc without dropping it.
make_mut_clone_leak(h, p) ==
    LET a == h.ptr[p]
        b == FreshAlloc(h)
        h1 == RcNew(h, b, h.val[a])
    IN  [h1 EXCEPT !.ptr[p] = b]

\* Defect: the clone branch hands out a view into the shared allocation.
make_mut_clone_in_place(h, p) == h

\* Rc::make_mut, branch strong_count != 1: clone the value into a new
\* allocation and drop the old Rc.
make_mut_clone(h, p) ==
    LET a == h.ptr[p]
        b == FreshAlloc(h)
        h1 == RcNew(h, b, h.val[a])
    IN  StrongRelease([h1 EXCEPT !.ptr[p] = b], a)

\* Defect: the value is copied, and the old allocation keeps its own.
make_mut_move_copies(h, p) ==
    LET a == h.ptr[p]
        b == FreshAlloc(h)
        h1 == RcNew(h, b, h.val[a])
    IN  [h1 EXCEPT !.ptr[p] = b, !.strong[a] = @ - 1, !.weak[a] = @ - 1]

\* Rc::make_mut, branch weak_count != 0: move the value into a new
\* allocation, dec_strong and dec_weak on the old one, which is left to its
\* observers.
make_mut_move(h, p) ==
    LET a == h.ptr[p]
        b == FreshAlloc(h)
        h1 == RcNew(h, b, h.val[a])
    IN  [h1 EXCEPT !.ptr[p] = b, !.val[a] = NoValue, !.slot[a] = "moved",
                   !.strong[a] = @ - 1, !.weak[a] = @ - 1]

\* Defect: the weak count is not looked at, an observed sole owner mutates
\* in place.
make_mut_branch_ignore_weak(h, p) ==
    IF strong_count(h, h.ptr[p]) # 1 THEN "clone" ELSE "in_place"

\* Defect: the value is cloned whenever the pointer is not unique.
make_mut_branch_clone_if_observed(h, p) ==
    IF strong_count(h, h.ptr[p]) # 1 \/ weak_count(h, h.ptr[p]) # 0
    THEN "clone" ELSE "in_place"

\* Defect: a shared and observed value is moved instead of cloned.
make_mut_branch_move_if_observed(h, p) ==
    IF weak_count(h, h.ptr[p]) # 0 THEN "move"
    ELSE IF strong_count(h, h.ptr[p]) # 1 THEN "clone"
    ELSE "in_place"

\* Rc::make_mut, the branch taken.
make_mut_branch(h, p) ==
    IF strong_count(h, h.ptr[p]) # 1 THEN "clone"
    ELSE IF weak_count(h, h.ptr[p]) # 0 THEN "move"
    ELSE "in_place"

\* Defect: the view is always handed out into the current allocation.
make_mut_always_in_place(h, p) == h

\* Rc::make_mut
make_mut(h, p) ==
    CASE make_mut_branch(h, p) = "clone" -> make_mut_clone(h, p)
      [] make_mut_branch(h, p) = "move" -> make_mut_move(h, p)
      [] OTHER -> h

\* The number of calls of T::clone in make_mut: one, in its first branch.
make_mut_dups(h, p) == IF make_mut_branch(h, p) = "clone" THEN 1 ELSE 0

\* DerefMut for CowRc followed by the write through the returned view.
deref_mut(h, p, f) ==
    LET h1 == make_mut(h, p)
    IN  [h1 EXCEPT !.val[h1.ptr[p]] = Apply(f, @)]

\* ------------------------------------------------------------- the record
\* op: the operation; p: the pointer it acted on or returned; w: the observer
\* it acted on or returned; f: the write; dup: calls of T::clone; res: what
\* upgrade returned; val: the value the operation read; old: the allocation
\* a mutable access left behind (0 when it stayed).
Op(op, p, w, f, dup, res, val, old) ==
    [op |-> op, p |-> p, w |-> w, f |-> f, dup |-> dup, res |-> res,
     val |-> val, old |-> old]

Init ==
    /\ heap = [strong |-> [a \in Allocs |-> 0],
               weak |-> [a \in Allocs |-> 0],
               val |-> [a \in Allocs |-> NoValue],
               slot |-> [a \in Allocs |-> "empty"],
               mem |-> [a \in Allocs |-> "unused"],
               ptr |-> <<>>,
               obs |-> <<>>,
               np |-> 0, no |-> 0, na |-> 0]
    /\ last = Op("init", 0, 0, "-", 0, "-", NoValue, 0)
    /\ orphaned = {}

\* let p = CowRc::new(v)
New(p, v) ==
    /\ p = FreshPtr(heap)
    /\ heap.na < MaxAllocs
    /\ heap' = new(heap, p, v)
    /\ last' = Op("new", p, 0, "-", 0, "-", NoValue, 0)
    /\ UNCHANGED orphaned

\* let q = CowRc::clone(&p)
CloneOp(p, q) ==
    /\ p \in LivePtrs(heap)
    /\ q = FreshPtr(heap)
    /\ heap' = clone(heap, p, q)
    /\ last' = Op("clone", p, 0, "-", 0, "-", NoValue, 0)
    /\ UNCHANGED orphaned

\* drop(p)
DropOp(p) ==
    /\ p \in LivePtrs(heap)
    /\ heap' = drop(heap, p)
    /\ last' = Op("drop", p, 0, "-", 0, "-", NoValue, 0)
    /\ UNCHANGED orphaned

\* *p
Borrow(p) ==
    /\ p \in LivePtrs(heap)
    /\ last' = Op("borrow", p, 0, "-", 0, "-", deref(heap, p), 0)
    /\ UNCHANGED <<heap, orphaned>>

\* *p += 1, *p *= 2
DerefMut(p, f) ==
    /\ p \in LivePtrs(heap)
    /\ is_unique(heap, p) \/ heap.na < MaxAllocs
    /\ heap' = deref_mut(heap, p, f)
    /\ last' = Op("mutate", p, 0, f, make_mut_dups(heap, p), "-", NoValue,
                  IF heap'.ptr[p] = heap.ptr[p] THEN 0 ELSE heap.ptr[p])
    /\ orphaned' = IF strong_count(heap, heap.ptr[p]) = 1
                        /\ weak_count(heap, heap.ptr[p]) > 0
                   THEN orphaned \cup {heap.ptr[p]}
                   ELSE orphaned

\* let w = CowRc::downgrade(&p)
Downgrade(p, w) ==
    /\ p \in LivePtrs(heap)
    /\ w = FreshObs(heap)
    /\ heap' = downgrade(heap, p, w)
    /\ last' = Op("downgrade", p, w, "-", 0, "-", NoValue, 0)
    /\ UNCHANGED orphaned

\* let w = WeakCowRc::new()
WeakNew(w) ==
    /\ w = FreshObs(heap)
    /\ heap' = weak_new(heap, w)
    /\ last' = Op("weak_new", 0, w, "-", 0, "-", NoValue, 0)
    /\ UNCHANGED orphaned

\* drop(w)
WeakDrop(w) ==
    /\ w \in LiveObs(heap)
    /\ heap' = weak_drop(heap, w)
    /\ last' = Op("weak_drop", 0, w, "-", 0, "-", NoValue, 0)
    /\ UNCHANGED orphaned

\* let q = w.upgrade(), returning Some
UpgradeSome(w, q) ==
    /\ w \in LiveObs(heap)
    /\ q = FreshPtr(heap)
    /\ upgrade_ok(heap, w)
    /\ heap' = upgrade(heap, w, q)
    /\ last' = Op("upgrade", q, w, "-", 0, "some", deref(heap', q), 0)
    /\ UNCHANGED orphaned

\* w.upgrade(), returning None
UpgradeNone(w) ==
    /\ w \in LiveObs(heap)
    /\ ~upgrade_ok(heap, w)
    /\ last' = Op("upgrade", 0, w, "-", 0, "none", NoValue, 0)
    /\ UNCHANGED <<heap, orphaned>>

Next ==
    \/ \E p \in Ptrs, v \in Values : New(p, v)
    \/ \E p \in Ptrs, q \in Ptrs : CloneOp(p, q)
    \/ \E p \in Ptrs : DropOp(p)
    \/ \E p \in Ptrs : Borrow(p)
    \/ \E p \in Ptrs, f \in MutOps : DerefMut(p, f)
    \/ \E p \in Ptrs, w \in Obs : Downgrade(p, w)
    \/ \E w \in Obs : WeakNew(w)
    \/ \E w \in Obs : WeakDrop(w)
    \/ \E w \in Obs, q \in Ptrs : UpgradeSome(w, q)
    \/ \E w \in Obs : UpgradeNone(w)

Spec == Init /\ [][Next]_vars

TypeOK ==
    /\ heap.strong \in [Allocs -> 0..MaxPtrs]
    /\ heap.weak \in [Allocs -> 0..(MaxObs + 1)]
    /\ heap.val \in [Allocs -> Values \cup {NoValue}]
    /\ heap.slot \in [Allocs -> {"empty", "value", "dropped", "moved"}]
    /\ heap.mem \in [Allocs -> {"unused", "live", "reclaimed"}]
    /\ LivePtrs(heap) \subseteq 1..heap.np
    /\ LiveObs(heap) \subseteq 1..heap.no
    /\ heap.np \in 0..MaxPtrs /\ heap.no \in 0..MaxObs /\ heap.na \in 0..MaxAllocs
    /\ \A p \in LivePtrs(heap) : heap.ptr[p] \in 1..heap.na
    /\ \A w \in LiveObs(heap) : heap.obs[w] \in (1..heap.na) \cup {Dangling}
    /\ orphaned \subseteq Allocs

\* --------------------------------------------------------------- claims
\* The pointers and observers that reference allocation a.
PtrsOn(h, a) == {p \in LivePtrs(h) : h.ptr[p] = a}
ObsOn(h, a) == {w \in LiveObs(h) : h.obs[w] = a}

\* The step is a mutable access (with its write) through pointer last'.p.
MutateStep == last'.op = "mutate"

\* C1: mutable access through a pointer p whose allocation A has
\* strong_count > 1 puts p on a new allocation (strong_count 1, weak_count 0)
\* that holds a duplicate of A's value, to which the write is applied; A
\* loses exactly one strong reference and keeps its value, its weak_count and
\* all its other pointers and observers, and a later write through p is seen
\* through p only.
C1_CloneOnWrite ==
    [][(MutateStep /\ strong_count(heap, heap.ptr[last'.p]) > 1) =>
        LET p == last'.p
            A == heap.ptr[p]
            B == heap'.ptr[p]
        IN  /\ B # A
            /\ heap.mem[B] = "unused" /\ heap'.mem[B] = "live"
            /\ strong_count(heap', B) = 1
            /\ weak_count(heap', B) = 0
            /\ PtrsOn(heap', B) = {p} /\ ObsOn(heap', B) = {}
            /\ heap'.val[B] = Apply(last'.f, heap.val[A])
            /\ strong_count(heap', A) = strong_count(heap, A) - 1
            /\ heap'.val[A] = heap.val[A]
            /\ heap'.slot[A] = "value"
            /\ weak_count(heap', A) = weak_count(heap, A)
            /\ LivePtrs(heap') = LivePtrs(heap)
            /\ \A q \in LivePtrs(heap) \ {p} :
                   heap'.ptr[q] = heap.ptr[q] /\ deref(heap', q) = deref(heap, q)
            /\ heap'.obs = heap.obs
            /\ \A f \in MutOps : \A q \in LivePtrs(heap') \ {p} :
                   deref(deref_mut(heap', p, f), q) = deref(heap', q)
    ]_vars

\* A pointer has just left a shared, observed allocation by a write: it and
\* the co-owner that stayed read different values.
C1_Witness ==
    /\ last.op = "mutate" /\ last.dup = 1
    /\ \E q \in LivePtrs(heap) \ {last.p} :
           /\ deref(heap, q) # deref(heap, last.p)
           /\ ObsOn(heap, heap.ptr[q]) # {}

\* C2: mutable access by the only strong owner p of an observed allocation A
\* moves p to a new allocation (strong_count 1, weak_count 0); from then on
\* A's strong_count is zero for good and every upgrade of an observer of A
\* returns empty, whatever operations follow.
C2_Disassociation ==
    [][/\ (MutateStep /\ strong_count(heap, heap.ptr[last'.p]) = 1
                      /\ weak_count(heap, heap.ptr[last'.p]) > 0) =>
            LET p == last'.p
                A == heap.ptr[p]
                B == heap'.ptr[p]
            IN  /\ B # A
                /\ heap.mem[B] = "unused" /\ heap'.mem[B] = "live"
                /\ strong_count(heap', B) = 1
                /\ weak_count(heap', B) = 0
                /\ A \in orphaned'
                /\ ObsOn(heap', A) = ObsOn(heap, A)
                /\ \A w \in ObsOn(heap, A) : ~upgrade_ok(heap', w)
       /\ \A a \in orphaned : a \in orphaned' /\ strong_count(heap', a) = 0
       /\ (last'.op = "upgrade" /\ heap.obs[last'.w] \in orphaned) =>
            last'.res = "none" /\ heap' = heap
    ]_vars

\* An observer of an allocation its sole owner moved away from has been asked
\* to upgrade and returned empty, while that owner is still alive.
C2_Witness ==
    /\ last.op = "upgrade" /\ last.res = "none"
    /\ heap.obs[last.w] \in orphaned
    /\ LivePtrs(heap) # {}

\* The allocations that hold a value.
Valued(h) == {a \in Allocs : h.slot[a] = "value"}

\* The state is the one right after a clone-on-write that left allocation
\* last.old behind.
AfterCloneOnWrite == last.op = "mutate" /\ last.dup = 1

\* Mutable access on one of several owners of A leaves A to its observers: they
\* still upgrade, to A and its unchanged value, while the acting pointer
\* reads the written value and the other owners the old one.
C3_ObserversKeepOld ==
    /\ (MutateStep /\ strong_count(heap, heap.ptr[last'.p]) >= 2) =>
         LET p == last'.p
             A == heap.ptr[p]
             q == FreshPtr(heap')
         IN  /\ heap'.val[A] = heap.val[A]
             /\ deref(heap', p) = Apply(last'.f, heap.val[A])
             /\ \A r \in PtrsOn(heap, A) \ {p} : deref(heap', r) = heap.val[A]
             /\ \A w \in ObsOn(heap, A) :
                    /\ heap'.obs[w] = A
                    /\ upgrade_ok(heap', w)
                    /\ deref(upgrade(heap', w, q), q) = heap.val[A]
    /\ (AfterCloneOnWrite /\ last'.op = "upgrade"
                          /\ heap.obs[last'.w] = last.old) =>
         /\ last'.res = "some"
         /\ heap'.ptr[last'.p] = last.old
         /\ last'.val = heap.val[last.old]

\* C3 as stated: after the clone-on-write, the observers of A upgrade to the
\* pre-mutation value, and A's strong_count (the condition of upgrade) falls
\* to zero only by the drop of A's last strong owner.
C3_Original ==
    [][/\ C3_ObserversKeepOld
       /\ (AfterCloneOnWrite /\ ObsOn(heap, last.old) # {}
             /\ strong_count(heap, last.old) > 0
             /\ strong_count(heap', last.old) = 0) =>
            last'.op = "drop"
    ]_vars

\* C3, amended: after the clone-on-write, the observers of A upgrade to the
\* pre-mutation value; an upgrade returns empty only once the strong_count of
\* the allocation is zero, which it becomes either by the drop of the last
\* strong owner or by a mutable access of the last strong owner while
\* observers exist.
C3_Amended ==
    [][/\ C3_ObserversKeepOld
       /\ \A a \in Allocs :
            (strong_count(heap, a) > 0 /\ strong_count(heap', a) = 0) =>
                /\ last'.op \in {"drop", "mutate"}
                /\ a = heap.ptr[last'.p]
                /\ strong_count(heap, a) = 1
                /\ last'.op = "mutate" => weak_count(heap, a) > 0
       /\ (last'.op = "upgrade" /\ last'.res = "none"
             /\ heap.obs[last'.w] # Dangling) =>
            strong_count(heap, heap.obs[last'.w]) = 0
    ]_vars

\* Right after a clone-on-write away from an observed allocation: the
\* observer can upgrade and the acting pointer reads another value than the
\* allocation it left.
C3_Witness ==
    /\ AfterCloneOnWrite
    /\ \E w \in ObsOn(heap, last.old) :
           upgrade_ok(heap, w) /\ deref(heap, last.p) # heap.val[last.old]

\* C4: mutable access through a pointer whose allocation has strong_count 1
\* never calls T::clone: without observers the write is made in place, with
\* observers the value is moved to a new allocation and the old one keeps no
\* value; either way the number of values in existence does not change.
C4_NoDuplicationWhenSoleOwner ==
    [][(MutateStep /\ strong_count(heap, heap.ptr[last'.p]) = 1) =>
        LET p == last'.p
            A == heap.ptr[p]
            B == heap'.ptr[p]
        IN  /\ last'.dup = 0
            /\ Cardinality(Valued(heap')) = Cardinality(Valued(heap))
            /\ heap'.val[B] = Apply(last'.f, heap.val[A])
            /\ weak_count(heap, A) = 0 => B = A /\ heap'.na = heap.na
            /\ weak_count(heap, A) > 0 =>
                   B # A /\ heap'.slot[A] = "moved" /\ heap'.val[A] = NoValue
    ]_vars

\* A sole owner with observers has just taken mutable access: it moved, and
\* no clone was made.
C4_Witness ==
    /\ last.op = "mutate" /\ last.dup = 0 /\ last.old # 0
    /\ heap.slot[last.old] = "moved"

\* C5: a mutable access through a pointer whose allocation has
\* strong_count > 1 calls T::clone exactly once (one more value exists); the
\* next mutable access through the same pointer calls it zero times, and so
\* does a mutable access through the former co-owner once it is alone on the
\* old allocation.
C5_OneDuplicationPerSharedWrite ==
    [][/\ (MutateStep /\ strong_count(heap, heap.ptr[last'.p]) > 1) =>
            LET p == last'.p
                A == heap.ptr[p]
            IN  /\ last'.dup = 1
                /\ Cardinality(Valued(heap')) = Cardinality(Valued(heap)) + 1
                /\ ~needs_cloning_to_mutate(heap', p)
                /\ make_mut_dups(heap', p) = 0
                /\ strong_count(heap, A) = 2 =>
                       \A q \in PtrsOn(heap', A) : make_mut_dups(heap', q) = 0
       /\ (AfterCloneOnWrite /\ MutateStep /\ last'.p = last.p) =>
            /\ last'.dup = 0
            /\ Cardinality(Valued(heap')) = Cardinality(Valued(heap))
       /\ (AfterCloneOnWrite /\ MutateStep /\ heap.ptr[last'.p] = last.old
             /\ strong_count(heap, last.old) = 1) =>
            /\ last'.dup = 0
            /\ Cardinality(Valued(heap')) = Cardinality(Valued(heap))
    ]_vars

\* A clone-on-write has just separated two co-owners: each is now alone on
\* its allocation.
C5_Witness ==
    /\ AfterCloneOnWrite
    /\ Cardinality(LivePtrs(heap)) >= 2
    /\ \A q \in LivePtrs(heap) : ~needs_cloning_to_mutate(heap, q)

\* The heap apart from the strong count of allocation a and the pointers.
Frame(h, a) == [h EXCEPT !.strong[a] = 0, !.ptr = <<>>, !.np = 0]

\* C6: upgrade of an observer returns a pointer iff the observer references
\* an allocation whose strong_count is greater than zero; on success the
\* strong_count of that allocation grows by exactly one, the returned pointer
\* references it and nothing else changes; on failure nothing changes; an
\* observer made by WeakCowRc::new references no allocation and never
\* upgrades.
C6_Upgrade ==
    [][last'.op = "upgrade" =>
        LET w == last'.w
            a == heap.obs[w]
            q == last'.p
        IN  /\ last'.res \in {"some", "none"}
            /\ last'.res = "some" <=> (a \in Allocs /\ heap.strong[a] > 0)
            /\ a = Dangling => last'.res = "none"
            /\ last'.res = "some" =>
                   /\ heap'.strong[a] = heap.strong[a] + 1
                   /\ q \notin LivePtrs(heap)
                   /\ LivePtrs(heap') = LivePtrs(heap) \cup {q}
                   /\ heap'.ptr[q] = a
                   /\ \A r \in LivePtrs(heap) : heap'.ptr[r] = heap.ptr[r]
                   /\ Frame(heap', a) = Frame(heap, a)
                   /\ last'.val = heap.val[a]
            /\ last'.res = "none" => heap' = heap
    ]_vars

\* An upgrade has just succeeded on an allocation that is now shared by the
\* returned pointer and an older one.
C6_Witness ==
    /\ last.op = "upgrade" /\ last.res = "some"
    /\ Cardinality(PtrsOn(heap, heap.ptr[last.p])) = 2

\* C7: the strong_count of every allocation is the number of live pointers
\* that reference it: at least 1 while a pointer references it, and 0 when
\* only observers do.
C7_StrongCountsPointers ==
    \A a \in Allocs :
        /\ strong_count(heap, a) = Cardinality(PtrsOn(heap, a))
        /\ PtrsOn(heap, a) # {} => strong_count(heap, a) >= 1
        /\ PtrsOn(heap, a) = {} => strong_count(heap, a) = 0

\* One allocation has two pointers and an observer, while another has only
\* lost its last pointer and kept an observer.
C7_Witness ==
    /\ \E a \in Allocs : Cardinality(PtrsOn(heap, a)) = 2
    /\ \E a \in Allocs : PtrsOn(heap, a) = {} /\ ObsOn(heap, a) # {}

\* The allocations created so far.
Created(h) == 1..h.na

\* Both counts of allocation a are zero.
BothZero(h, a) == strong_count(h, a) = 0 /\ weak_count(h, a) = 0

\* C8 as stated: the value of an allocation is dropped and its memory is
\* reclaimed when, and only when, both counts have reached zero; neither
\* happens while a pointer or an observer references the allocation.
C8_Original ==
    \A a \in Created(heap) :
        /\ heap.slot[a] = "dropped" => BothZero(heap, a)
        /\ heap.mem[a] = "reclaimed" <=> BothZero(heap, a)
        /\ BothZero(heap, a) => heap.slot[a] # "value"
        /\ (PtrsOn(heap, a) # {} \/ ObsOn(heap, a) # {}) =>
               heap.mem[a] = "live" /\ heap.slot[a] # "dropped"

\* C8, amended: the memory of an allocation is reclaimed when, and only when,
\* both counts have reached zero, and never while a pointer or an observer
\* references it; its value is gone (dropped, or moved out) as soon as its
\* strong_count is zero, also while observers still reference it.
C8_Amended ==
    \A a \in Allocs :
        /\ a \notin Created(heap) => heap.mem[a] = "unused"
        /\ a \in Created(heap) =>
            /\ heap.mem[a] = "reclaimed" <=> BothZero(heap, a)
            /\ heap.mem[a] \in {"live", "reclaimed"}
            /\ (PtrsOn(heap, a) # {} \/ ObsOn(heap, a) # {}) => heap.mem[a] = "live"
            /\ heap.slot[a] = "value" <=> strong_count(heap, a) > 0
            /\ heap.slot[a] = "value" <=> heap.val[a] # NoValue
            /\ weak_count(heap, a) = Cardinality(ObsOn(heap, a))

\* The last pointer of an observed allocation was dropped: the value is
\* dropped, the memory is kept for the observer.
C8_Witness ==
    \E a \in Created(heap) :
        /\ heap.slot[a] = "dropped" /\ heap.mem[a] = "live"
        /\ ObsOn(heap, a) # {}

\* The pointer a step has added.
NewPtr == CHOOSE q \in LivePtrs(heap') \ LivePtrs(heap) : TRUE

\* C9: clone returns a pointer to the allocation of p, raises its
\* strong_count by exactly one, creates no value and changes neither
\* weak_count nor the value nor anything else; borrow on p and on the clone
\* returns the original value and both need cloning to mutate.
C9_Clone ==
    [][last'.op = "clone" =>
        LET p == last'.p
            a == heap.ptr[p]
            q == NewPtr
        IN  /\ LivePtrs(heap') \ LivePtrs(heap) = {q}
            /\ LivePtrs(heap) \subseteq LivePtrs(heap')
            /\ heap'.ptr[q] = a
            /\ \A r \in LivePtrs(heap) : heap'.ptr[r] = heap.ptr[r]
            /\ strong_count(heap', a) = strong_count(heap, a) + 1
            /\ weak_count(heap', a) = weak_count(heap, a)
            /\ Frame(heap', a) = Frame(heap, a)
            /\ Valued(heap') = Valued(heap)
            /\ deref(heap', p) = deref(heap, p)
            /\ deref(heap', q) = deref(heap, p)
            /\ needs_cloning_to_mutate(heap', p)
            /\ needs_cloning_to_mutate(heap', q)
    ]_vars

\* A pointer of an observed allocation has just been cloned.
C9_Witness ==
    /\ last.op = "clone"
    /\ strong_count(heap, heap.ptr[last.p]) = 2
    /\ weak_count(heap, heap.ptr[last.p]) >= 1

\* C10: downgrade returns an observer of p's allocation, raises its
\* weak_count by exactly one and changes nothing else; an upgrade of the new
\* observer made right away succeeds and reads the value p reads.
C10_Downgrade ==
    [][/\ last'.op = "downgrade" =>
            LET p == last'.p
                a == heap.ptr[p]
                w == last'.w
                q == FreshPtr(heap')
            IN  /\ w \notin LiveObs(heap)
                /\ LiveObs(heap') = LiveObs(heap) \cup {w}
                /\ heap'.obs[w] = a
                /\ \A x \in LiveObs(heap) : heap'.obs[x] = heap.obs[x]
                /\ weak_count(heap', a) = weak_count(heap, a) + 1
                /\ \A b \in Allocs \ {a} : heap'.weak[b] = heap.weak[b]
                /\ heap'.strong = heap.strong
                /\ heap'.val = heap.val
                /\ heap'.slot = heap.slot
                /\ heap'.mem = heap.mem
                /\ heap'.ptr = heap.ptr
                /\ heap'.na = heap.na
                /\ upgrade_ok(heap', w)
                /\ deref(upgrade(heap', w, q), q) = deref(heap', p)
       /\ (last.op = "downgrade" /\ last'.op = "upgrade" /\ last'.w = last.w) =>
            /\ last'.res = "some"
            /\ heap'.ptr[last'.p] = heap.ptr[last.p]
            /\ last'.val = deref(heap, last.p)
    ]_vars

\* A pointer has just been downgraded: its allocation has an observer more
\* and the same strong owners.
C10_Witness ==
    /\ last.op = "downgrade"
    /\ heap.obs[last.w] = heap.ptr[last.p]
    /\ weak_count(heap, heap.obs[last.w]) >= 1
    /\ upgrade_ok(heap, last.w)

\* The heap with every weak field set to n.
WithWeak(h, n) == [h EXCEPT !.weak = [a \in Allocs |-> n]]

\* C11: needs_cloning_to_mutate(p) is true iff the strong_count of p's
\* allocation is greater than 1 (more than one live pointer references it),
\* whatever the weak_count; and a mutable access through p calls T::clone,
\* and leaves a value behind in the old allocation, exactly when
\* needs_cloning_to_mutate(p) was true.
C11_NeedsCloning ==
    [][/\ \A p \in LivePtrs(heap') :
            /\ needs_cloning_to_mutate(heap', p)
                   <=> strong_count(heap', heap'.ptr[p]) > 1
            /\ needs_cloning_to_mutate(heap', p)
                   <=> Cardinality(PtrsOn(heap', heap'.ptr[p])) > 1
            /\ \A n \in 1..(MaxObs + 1) :
                   needs_cloning_to_mutate(WithWeak(heap', n), p)
                       <=> needs_cloning_to_mutate(heap', p)
       /\ MutateStep =>
            LET p == last'.p
                A == heap.ptr[p]
            IN  /\ last'.dup = 1 <=> needs_cloning_to_mutate(heap, p)
                /\ Cardinality(Valued(heap')) =
                       Cardinality(Valued(heap))
                           + (IF needs_cloning_to_mutate(heap, p) THEN 1 ELSE 0)
                /\ needs_cloning_to_mutate(heap, p)
                       <=> (heap'.ptr[p] # A /\ heap'.slot[A] = "value")
    ]_vars

\* A clone-on-write has just left an observed allocation to a single owner:
\* that owner does not need cloning to mutate although it is observed.
C11_Witness ==
    /\ AfterCloneOnWrite
    /\ \E q \in PtrsOn(heap, last.old) :
           /\ ~needs_cloning_to_mutate(heap, q)
           /\ weak_count(heap, heap.ptr[q]) > 0

\* C12: is_unique(p) is true iff p's allocation has strong_count 1 and
\* weak_count 0 (p is its only pointer and it has no observer); a mutable
\* access through p stays on the same allocation exactly when is_unique(p)
\* was true, and then changes nothing but the value of that allocation.
C12_IsUnique ==
    [][/\ \A p \in LivePtrs(heap') :
            LET a == heap'.ptr[p]
            IN  /\ is_unique(heap', p)
                       <=> (strong_count(heap', a) = 1 /\ weak_count(heap', a) = 0)
                /\ is_unique(heap', p)
                       <=> (PtrsOn(heap', a) = {p} /\ ObsOn(heap', a) = {})
       /\ MutateStep =>
            LET p == last'.p
                A == heap.ptr[p]
            IN  /\ is_unique(heap, p) <=> heap'.ptr[p] = A
                /\ is_unique(heap, p) =>
                       heap' = [heap EXCEPT !.val[A] = Apply(last'.f, @)]
                /\ ~is_unique(heap, p) =>
                       /\ heap'.na = heap.na + 1
                       /\ heap'.val[A] \in {heap.val[A], NoValue}
    ]_vars

\* A unique pointer has just been written through in place, next to a pointer
\* that is not unique because it is observed.
C12_Witness ==
    /\ last.op = "mutate" /\ last.old = 0 /\ is_unique(heap, last.p)
    /\ \E q \in LivePtrs(heap) :
           ~is_unique(heap, q) /\ ~needs_cloning_to_mutate(heap, q)

\* C19: the mutable view handed out by a mutable access through p points
\* into an allocation that p alone references (strong_count 1, weak_count 0,
\* no other pointer, no observer), so the write through it changes neither
\* the value any other pointer reads nor the value an upgrade of any observer
\* yields.
C19_ExclusiveView ==
    [][MutateStep =>
        LET p == last'.p
            B == heap'.ptr[p]
            view == make_mut(heap, p)
            q == FreshPtr(heap')
        IN  /\ is_unique(view, p)
            /\ view.ptr[p] = B
            /\ strong_count(heap', B) = 1
            /\ weak_count(heap', B) = 0
            /\ PtrsOn(heap', B) = {p}
            /\ ObsOn(heap', B) = {}
            /\ \A r \in LivePtrs(heap) \ {p} :
                   r \in LivePtrs(heap') /\ deref(heap', r) = deref(heap, r)
            /\ \A w \in LiveObs(heap') :
                   upgrade_ok(heap', w) =>
                       /\ upgrade_ok(heap, w)
                       /\ heap'.obs[w] # B
                       /\ deref(upgrade(heap', w, q), q) = heap.val[heap.obs[w]]
    ]_vars

\* A pointer has just been written through after leaving an allocation that
\* another pointer and an observer still reference.
C19_Witness ==
    /\ last.op = "mutate" /\ last.old # 0
    /\ is_unique(heap, last.p)
    /\ PtrsOn(heap, last.old) # {}
    /\ ObsOn(heap, last.old) # {}

\* ====================================================================
\* The thread-safe variant, CowArc<T> and WeakCowArc<T> (src/src/sync.rs).
\* Every operation forwards to std::sync::Arc / Weak, whose allocation has
\* the same layout (strong, weak with the implicit weak reference, value);
\* the counters are atomics, and a call is a sequence of steps, each one
\* atomic operation on a counter together with the thread-local work that
\* follows it.  The specifications of this part use the same three
\* variables: `heap` is the shared memory plus, per thread, the call in
\* flight; `last` is the call that returned last; `orphaned` the allocations
\* a sole owner moved out of.
\* ====================================================================
\* The number of calls made in a run, after the construction of the first
\* pointer.
MaxCalls == 4

ArcPtrs == 1..(MaxCalls + 1)
ArcObs == 1..MaxCalls
ArcAllocs == 1..(MaxCalls + 1)
Threads == 1..2

\* A call in flight.  op: the operation; pc: its next step; p, w: the handle
\* it borrows or returns; a: the allocation it works on; b: the allocation it
\* created; cur: the counter value it read last; f: the write; ops: atomic
\* counter operations made so far; allocs: allocations made; dup: calls of
\* T::clone; res, val: what it returns; late: it began after the value of its
\* allocation had been dropped.
Call(op, pc, p, w, a, cur, f) ==
    [op |-> op, pc |-> pc, p |-> p, w |-> w, a |-> a, b |-> 0, cur |-> cur,
     f |-> f, ops |-> 0, allocs |-> 0, dup |-> 0, res |-> "-",
     val |-> NoValue, late |-> FALSE]

Idle == Call("idle", "-", 0, 0, 0, 0, "-")

InFlight(h) == {t \in Threads : h.call[t].op # "idle"}

\* The handles borrowed by calls in flight.
BorrowedPtrs(h) == {h.call[t].p : t \in InFlight(h)}
BorrowedObs(h) == {h.call[t].w : t \in InFlight(h)}

\* The call of thread t has returned.
Done(h, t, res, val) ==
    [h EXCEPT !.call[t].pc = "done", !.call[t].res = res, !.call[t].val = val]

\* One more atomic counter operation by thread t.
Counted(h, t) == [h EXCEPT !.call[t].ops = @ + 1]

\* Arc::strong_count, Arc::weak_count (through a live CowArc)
arc_strong_count(h, a) == h.strong[a]
arc_weak_count(h, a) == h.weak[a] - 1

\* CowArc::needs_cloning_to_mutate, CowArc::is_unique
arc_needs_cloning_to_mutate(h, p) == arc_strong_count(h, h.ptr[p]) > 1
arc_is_unique(h, p) ==
    ~arc_needs_cloning_to_mutate(h, p) /\ arc_weak_count(h, h.ptr[p]) = 0

\* CowArc::new: Arc::new, ArcInner { strong: 1, weak: 1, data }
arc_new(h, p, v) == BindPtr(RcNew(h, FreshAlloc(h), v), p, FreshAlloc(h))

\* Clone for CowArc (derived): Arc::clone, strong.fetch_add(1)
arc_clone(h, p, q) ==
    LET a == h.ptr[p]
    IN  BindPtr([h EXCEPT !.strong[a] = @ + 1], q, a)

\* WeakCowArc::new: Weak::new
arc_weak_new(h, w) == BindObs(h, w, Dangling)

\* Drop of a WeakCowArc: weak.fetch_sub(1), deallocate when it was 1.
arc_weak_drop(h, w) ==
    LET a == h.obs[w]
        h1 == [h EXCEPT !.obs = Remove(h.obs, w), !.spent = @ \ {w}]
    IN  IF a = Dangling THEN h1 ELSE WeakRelease(h1, a)

\* The write through the mutable view of thread t's call.
arc_write(h, t) ==
    LET c == h.call[t]
    IN  [h EXCEPT !.val[h.ptr[c.p]] = Apply(c.f, @)]

\* The call of thread t ends here, with the write first when it is a mutable
\* access.
arc_return(h, t) ==
    LET c == h.call[t]
    IN  IF c.op = "mutate"
        THEN Done(arc_write(h, t), t, "-", NoValue)
        ELSE Done(h, t, "-", NoValue)

\* --------------------------------------------------- WeakCowArc::upgrade
\* Weak::upgrade, entry: a Weak without allocation returns None at once;
\* otherwise fetch_update starts by loading the strong counter.
arc_upgrade_begin(h, t, w) ==
    LET a == h.obs[w]
    IN  IF a = Dangling
        THEN Done([h EXCEPT !.call[t] = Call("upgrade", "-", 0, w, 0, 0, "-"),
                            !.spent = @ \cup {w}],
                  t, "none", NoValue)
        ELSE Counted([h EXCEPT !.call[t] =
                         [Call("upgrade", "up_cas", 0, w, a, h.strong[a], "-")
                             EXCEPT !.late = (h.slot[a] = "dropped")]], t)

\* Defect: the new count is stored without comparing with the one read.
arc_upgrade_cas_blind(h, t) ==
    LET c == h.call[t]
        a == c.a
        q == FreshPtr(h)
    IN  IF c.cur = 0
        THEN Done([h EXCEPT !.spent = @ \cup {c.w}], t, "none", NoValue)
        ELSE Done(Counted(BindPtr([h EXCEPT !.strong[a] = c.cur + 1,
                                            !.call[t].p = q], q, a), t),
                  t, "some", h.val[a])

\* Defect: the count is incremented without looking for zero.
arc_upgrade_cas_from_zero(h, t) ==
    LET c == h.call[t]
        a == c.a
        q == FreshPtr(h)
    IN  Done(Counted(BindPtr([h EXCEPT !.strong[a] = @ + 1,
                                       !.call[t].p = q], q, a), t),
             t, "some", h.val[a])

\* Weak::upgrade, one round of fetch_update(checked_increment): None when the
\* count read is zero; otherwise compare_exchange(cur, cur + 1), which returns
\* the new CowArc on success and the current count on failure.
arc_upgrade_cas(h, t) ==
    LET c == h.call[t]
        a == c.a
        q == FreshPtr(h)
    IN  IF c.cur = 0
        THEN Done([h EXCEPT !.spent = @ \cup {c.w}], t, "none", NoValue)
        ELSE IF h.strong[a] = c.cur
        THEN Done(Counted(BindPtr([h EXCEPT !.strong[a] = c.cur + 1,
                                            !.call[t].p = q], q, a), t),
                  t, "some", h.val[a])
        ELSE Counted([h EXCEPT !.call[t].cur = h.strong[a]], t)

\* ----------------------------------------------------- CowArc::downgrade
\* Arc::downgrade, entry: the weak counter is loaded.
arc_downgrade_begin(h, t, p) ==
    LET a == h.ptr[p]
    IN  Counted([h EXCEPT !.call[t] =
                    Call("downgrade", "down_cas", p, 0, a, h.weak[a], "-")], t)

\* Defect: a lost compare_exchange is retried with the count read at entry.
arc_downgrade_cas_stale(h, t) ==
    LET c == h.call[t]
        a == c.a
        w == FreshObs(h)
    IN  IF h.weak[a] = c.cur
        THEN Done(Counted(BindObs([h EXCEPT !.weak[a] = c.cur + 1,
                                            !.call[t].w = w], w, a), t),
                  t, "-", NoValue)
        ELSE Counted(h, t)

\* Arc::downgrade, one round of its loop: compare_exchange(cur, cur + 1).
arc_downgrade_cas(h, t) ==
    LET c == h.call[t]
        a == c.a
        w == FreshObs(h)
    IN  IF h.weak[a] = c.cur
        THEN Done(Counted(BindObs([h EXCEPT !.weak[a] = c.cur + 1,
                                            !.call[t].w = w], w, a), t),
                  t, "-", NoValue)
        ELSE Counted([h EXCEPT !.call[t].cur = h.weak[a]], t)

\* ------------------------------------------------------ drop of a CowArc
\* Arc::drop_slow, first half: the value is dropped in place; the implicit
\* weak reference is released next.
arc_drop_value(h, t, a) ==
    [h EXCEPT !.val[a] = NoValue, !.slot[a] = "dropped", !.drops[a] = @ + 1,
              !.call[t].pc = "drop_weak", !.call[t].a = a]

\* Defect: the value is dropped by every drop, not only by the last.
arc_release_strong_always_last(h, t, a) ==
    arc_drop_value(Counted([h EXCEPT !.strong[a] = @ - 1], t), t, a)

\* Drop for Arc: strong.fetch_sub(1); the thread that saw 1 goes on to drop
\* the value (drop_slow), every other is done.
arc_release_strong(h, t, a) ==
    LET h1 == Counted([h EXCEPT !.strong[a] = @ - 1], t)
    IN  IF h.strong[a] = 1 THEN arc_drop_value(h1, t, a) ELSE arc_return(h1, t)

\* drop(p), entry: the handle is gone, the strong count is released.
arc_drop_begin(h, t, p) ==
    LET a == h.ptr[p]
    IN  arc_release_strong([h EXCEPT !.ptr = Remove(h.ptr, p),
                                     !.call[t] = Call("drop", "-", p, 0, a, 0, "-")],
                           t, a)

\* Arc::drop_slow, second half, and the end of make_mut's move branch: the
\* implicit weak reference is released (weak.fetch_sub(1), deallocate when
\* it was 1).
arc_drop_weak(h, t) ==
    arc_return(Counted(WeakRelease(h, h.call[t].a), t), t)

\* ------------------------------------- CowArc::as_mut / CowArc::deref_mut
\* Arc::make_mut, clone branch: the value is cloned into a new allocation;
\* `*this = arc` follows.
arc_make_mut_clone(h, t) ==
    LET a == h.call[t].a
        b == FreshAlloc(h)
    IN  [RcNew(h, b, h.val[a]) EXCEPT !.call[t].b = b, !.call[t].allocs = 1,
                                      !.call[t].dup = 1,
                                      !.call[t].pc = "mm_assign"]

\* Arc::make_mut, entry: strong.compare_exchange(1, 0).  On failure another
\* strong pointer exists and the value is cloned.
arc_make_mut_begin(h, t, p, f) ==
    LET a == h.ptr[p]
        c == Call("mutate", "-", p, 0, a, 0, f)
    IN  IF h.strong[a] = 1
        THEN Counted([h EXCEPT !.strong[a] = 0,
                               !.call[t] = [c EXCEPT !.pc = "mm_check_weak"]], t)
        ELSE arc_make_mut_clone(Counted([h EXCEPT !.call[t] = c], t), t)

\* Arc::make_mut, clone branch: `*this = arc` drops the old Arc.
arc_make_mut_assign(h, t) ==
    LET c == h.call[t]
    IN  arc_release_strong([h EXCEPT !.ptr[c.p] = c.b], t, c.a)

\* Arc::make_mut, move branch: the value is moved into a new allocation; the
\* old one is left to its Weak pointers, and the implicit weak reference is
\* released next.
arc_make_mut_move(h, t) ==
    LET c == h.call[t]
        a == c.a
        b == FreshAlloc(h)
        h1 == RcNew(h, b, h.val[a])
    IN  [h1 EXCEPT !.ptr[c.p] = b, !.val[a] = NoValue, !.slot[a] = "moved",
                   !.call[t].b = b, !.call[t].allocs = 1,
                   !.call[t].pc = "drop_weak"]

\* Defect: the weak counter is not looked at, the owner stays in place.
arc_make_mut_check_weak_ignored(h, t) ==
    Counted([h EXCEPT !.call[t].pc = "mm_restore"], t)

\* Arc::make_mut, after a successful compare_exchange: weak.load() tells
\* whether Weak pointers remain; if so the value is moved.
arc_make_mut_check_weak(h, t) ==
    IF h.weak[h.call[t].a] # 1
    THEN arc_make_mut_move(Counted(h, t), t)
    ELSE Counted([h EXCEPT !.call[t].pc = "mm_restore"], t)

\* Arc::make_mut, last branch: sole reference of either kind,
\* strong.store(1), the view is into the same allocation.
arc_make_mut_restore(h, t) ==
    arc_return(Counted([h EXCEPT !.strong[h.call[t].a] = 1], t), t)

\* The next atomic step of the call of thread t.
arc_step(h, t) ==
    CASE h.call[t].pc = "up_cas" -> arc_upgrade_cas(h, t)
      [] h.call[t].pc = "down_cas" -> arc_downgrade_cas(h, t)
      [] h.call[t].pc = "drop_weak" -> arc_drop_weak(h, t)
      [] h.call[t].pc = "mm_assign" -> arc_make_mut_assign(h, t)
      [] h.call[t].pc = "mm_check_weak" -> arc_make_mut_check_weak(h, t)
      [] h.call[t].pc = "mm_restore" -> arc_make_mut_restore(h, t)
      [] OTHER -> h

\* The call of thread t run to its return without another thread moving.
RECURSIVE arc_run(_, _)
arc_run(h, t) ==
    IF h.call[t].pc = "done" THEN h ELSE arc_run(arc_step(h, t), t)

\* A call that has returned leaves the thread idle.
Retire(h, t) == IF h.call[t].pc = "done" THEN [h EXCEPT !.call[t] = Idle] ELSE h
Returned(h, t, l) == IF h.call[t].pc = "done" THEN h.call[t] ELSE l
Moved(h) == {a \in DOMAIN h.slot : h.slot[a] = "moved"}

\* A one-step operation, as the call that has just returned.
Atomic(op, val, ops) ==
    [Call(op, "done", 0, 0, 0, 0, "-") EXCEPT !.val = val, !.ops = ops]

\* One more call made.
Called(h) == [h EXCEPT !.calls = @ + 1]

\* ------------------------------------------------------- specification
ArcEmpty ==
    [strong |-> [a \in ArcAllocs |-> 0],
     weak |-> [a \in ArcAllocs |-> 0],
     val |-> [a \in ArcAllocs |-> NoValue],
     slot |-> [a \in ArcAllocs |-> "empty"],
     mem |-> [a \in ArcAllocs |-> "unused"],
     drops |-> [a \in ArcAllocs |-> 0],
     ptr |-> <<>>,
     obs |-> <<>>,
     np |-> 0, no |-> 0, na |-> 0,
     spent |-> {},
     calls |-> 0,
     call |-> [t \in Threads |-> Idle]]

\* let p = CowArc::new(v), shared with the other thread
ArcInit ==
    /\ \E v \in Values : heap = arc_new(ArcEmpty, 1, v)
    /\ last = Idle
    /\ orphaned = {}

\* The step of thread t that takes the heap to h1.
Advance(h1, t) ==
    /\ heap' = Retire(h1, t)
    /\ last' = Returned(h1, t, last)
    /\ orphaned' = Moved(h1)

MayCall == heap.calls < MaxCalls
SomeIdle == InFlight(heap) # Threads
IdleThread(t) == heap.call[t].op = "idle"
PtrFree(p) == p \in LivePtrs(heap) /\ p \notin BorrowedPtrs(heap)
PtrShared(p) ==
    /\ p \in LivePtrs(heap)
    /\ \A t \in Threads : heap.call[t].op = "mutate" => heap.call[t].p # p
ObsFree(w) == w \in LiveObs(heap) /\ w \notin BorrowedObs(heap)

\* let q = p.clone()
ArcClone(p, q) ==
    /\ MayCall /\ SomeIdle
    /\ PtrShared(p)
    /\ q = FreshPtr(heap)
    /\ heap' = Called(arc_clone(heap, p, q))
    /\ last' = Atomic("clone", NoValue, 1)
    /\ UNCHANGED orphaned

\* drop(w)
ArcWeakDrop(w) ==
    /\ MayCall /\ SomeIdle
    /\ ObsFree(w)
    /\ heap' = Called(arc_weak_drop(heap, w))
    /\ last' = Atomic("weak_drop", NoValue, 1)
    /\ UNCHANGED orphaned

\* thread t calls drop(p)
ArcDropBegin(t, p) ==
    /\ MayCall /\ IdleThread(t)
    /\ PtrFree(p)
    /\ Advance(arc_drop_begin(Called(heap), t, p), t)

\* thread t calls CowArc::downgrade(&p)
ArcDowngradeBegin(t, p) ==
    /\ MayCall /\ IdleThread(t)
    /\ PtrShared(p)
    /\ Advance(arc_downgrade_begin(Called(heap), t, p), t)

\* thread t calls WeakCowArc::upgrade(&w)
ArcUpgradeBegin(t, w) ==
    /\ MayCall /\ IdleThread(t)
    /\ w \in LiveObs(heap)
    /\ Advance(arc_upgrade_begin(Called(heap), t, w), t)

\* thread t calls p.as_mut() / p.deref_mut() to write f
ArcMutBegin(t, p, f) ==
    /\ MayCall /\ IdleThread(t)
    /\ PtrFree(p)
    /\ Advance(arc_make_mut_begin(Called(heap), t, p, f), t)

\* thread t takes the next step of its call
ArcStep(t) ==
    /\ ~IdleThread(t)
    /\ Advance(arc_step(heap, t), t)

ArcNext ==
    \/ \E p \in ArcPtrs, q \in ArcPtrs : ArcClone(p, q)
    \/ \E w \in ArcObs : ArcWeakDrop(w)
    \/ \E t \in Threads, p \in ArcPtrs : ArcDropBegin(t, p)
    \/ \E t \in Threads, p \in ArcPtrs : ArcDowngradeBegin(t, p)
    \/ \E t \in Threads, w \in ArcObs : ArcUpgradeBegin(t, w)
    \/ \E t \in Threads, p \in ArcPtrs, f \in MutOps : ArcMutBegin(t, p, f)
    \/ \E t \in Threads : ArcStep(t)

ArcSpec == ArcInit /\ [][ArcNext]_vars

\* ------------------------------------------------------------------ claims
\* No call is in flight on any thread.
Quiescent == InFlight(heap) = {}

\* C13: whatever the interleaving of clone, drop, downgrade and upgrade (and
\* mutable access) by the threads, no counter update is lost: when no call is
\* in flight, the strong count of every allocation is the number of live
\* CowArc on it and its weak count the number of live WeakCowArc on it; the
\* value of an allocation is dropped at most once, never while a CowArc on it
\* lives, and exactly once when its last strong reference is gone by a drop.
C13_ArcCountsExact ==
    /\ \A a \in ArcAllocs :
          /\ heap.drops[a] <= 1
          /\ heap.drops[a] = 1 => PtrsOn(heap, a) = {}
    /\ Quiescent =>
          \A a \in 1..heap.na :
             /\ arc_strong_count(heap, a) = Cardinality(PtrsOn(heap, a))
             /\ arc_strong_count(heap, a) > 0 =>
                   /\ arc_weak_count(heap, a) = Cardinality(ObsOn(heap, a))
                   /\ heap.slot[a] = "value"
                   /\ heap.drops[a] = 0
             /\ arc_strong_count(heap, a) = 0 =>
                   /\ heap.weak[a] = Cardinality(ObsOn(heap, a))
                   /\ heap.slot[a] \in {"dropped", "moved"}
                   /\ heap.slot[a] = "dropped" <=> heap.drops[a] = 1

\* An upgrade whose compare_exchange lost against another thread's update
\* of the strong counter has returned a pointer, and no call is in flight.
C13_Witness ==
    /\ Quiescent
    /\ last.op = "upgrade" /\ last.res = "some" /\ last.ops > 2
    /\ \E a \in ArcAllocs : Cardinality(PtrsOn(heap, a)) > 1

\* Thread t's upgrade returns in this step; `last'` is the call with its
\* result.
UpgradeReturns(t) ==
    heap.call[t].op = "upgrade" /\ heap'.call[t].op = "idle"

\* C14: an upgrade that starts after the drop of the last strong reference
\* has dropped the value returns empty; and an upgrade that returns a pointer
\* returns one to an allocation that still holds its value (the value it
\* reports), with the strong count covering the new pointer.
C14_NoUpgradeAfterLastDrop ==
    [][\A t \in Threads :
          UpgradeReturns(t) =>
             /\ last'.late => last'.res = "none"
             /\ last'.res = "some" =>
                   /\ heap'.ptr[last'.p] = last'.a
                   /\ heap'.slot[last'.a] = "value"
                   /\ heap'.drops[last'.a] = 0
                   /\ last'.val = heap'.val[last'.a]
                   /\ arc_strong_count(heap', last'.a) >= 1]_vars

\* An upgrade that began after the value was dropped has returned empty.
C14_Witness ==
    /\ last.op = "upgrade" /\ last.late /\ last.res = "none"
    /\ heap.slot[last.a] = "dropped"

\* ====================================================================
\* CowRc and CowArc side by side: the same single-threaded sequence of calls
\* is made on a CowRc heap (`heap.rc`) and on a CowArc heap (`heap.arc`);
\* `last` holds what the call returned on either side.
\* ====================================================================
\* The thread that makes the calls.
Main == CHOOSE t \in Threads : \A u \in Threads : t <= u

\* A call on the CowArc side, run from its first step to its return.
arc_call(h) == arc_run(h, Main)

\* What a call returned: res, val as in the call records; p, w the pointer
\* or observer it returned (0: none); dup the calls of T::clone it made; q1, q2 the answers of
\* needs_cloning_to_mutate and is_unique.
Ret(res, val, p, w, dup, q1, q2) ==
    [res |-> res, val |-> val, p |-> p, w |-> w, dup |-> dup,
     q1 |-> q1, q2 |-> q2]

\* The return of the CowArc call that has just run in h.
ArcRet(h) ==
    LET c == h.call[Main]
    IN  Ret(c.res, c.val, IF c.op = "upgrade" THEN c.p ELSE 0,
            IF c.op = "downgrade" THEN c.w ELSE 0, c.dup, FALSE, FALSE)

Both(op, r, a) == [op |-> op, rc |-> r, arc |-> a]

PairInit ==
    /\ heap = [rc |-> [strong |-> [a \in ArcAllocs |-> 0],
                       weak |-> [a \in ArcAllocs |-> 0],
                       val |-> [a \in ArcAllocs |-> NoValue],
                       slot |-> [a \in ArcAllocs |-> "empty"],
                       mem |-> [a \in ArcAllocs |-> "unused"],
                       ptr |-> <<>>,
                       obs |-> <<>>,
                       np |-> 0, no |-> 0, na |-> 0],
               arc |-> ArcEmpty]
    /\ last = Both("init", Ret("-", NoValue, 0, 0, 0, FALSE, FALSE),
                           Ret("-", NoValue, 0, 0, 0, FALSE, FALSE))
    /\ orphaned = {}

\* The two heaps after a call, the CowArc call retired.
PairStep(r1, a1) ==
    /\ heap' = [rc |-> r1, arc |-> Called(Retire(a1, Main))]
    /\ UNCHANGED orphaned

PairMayCall == heap.arc.calls < MaxCalls
PairPtr(p) == p \in LivePtrs(heap.rc) /\ p \in LivePtrs(heap.arc)
PairObs(w) == w \in LiveObs(heap.rc) /\ w \in LiveObs(heap.arc)

\* CowRc::new(v), CowArc::new(v)
PairNew(p, v) ==
    /\ PairMayCall
    /\ p = FreshPtr(heap.rc)
    /\ PairStep(new(heap.rc, p, v), arc_new(heap.arc, FreshPtr(heap.arc), v))
    /\ last' = Both("new", Ret("-", NoValue, p, 0, 0, FALSE, FALSE),
                    Ret("-", NoValue, FreshPtr(heap.arc), 0, 0, FALSE, FALSE))

\* p.clone()
PairClone(p, q) ==
    /\ PairMayCall /\ PairPtr(p)
    /\ q = FreshPtr(heap.rc)
    /\ PairStep(clone(heap.rc, p, q), arc_clone(heap.arc, p, FreshPtr(heap.arc)))
    /\ last' = Both("clone", Ret("-", NoValue, q, 0, 0, FALSE, FALSE),
                    Ret("-", NoValue, FreshPtr(heap.arc), 0, 0, FALSE, FALSE))

\* drop(p)
PairDrop(p) ==
    /\ PairMayCall /\ PairPtr(p)
    /\ LET a1 == arc_call(arc_drop_begin(heap.arc, Main, p))
       IN  /\ PairStep(drop(heap.rc, p), a1)
           /\ last' = Both("drop", Ret("-", NoValue, 0, 0, 0, FALSE, FALSE),
                           ArcRet(a1))

\* *p (Deref, AsRef, Borrow)
PairBorrow(p) ==
    /\ PairMayCall /\ PairPtr(p)
    /\ PairStep(heap.rc, heap.arc)
    /\ last' = Both("borrow",
                    Ret("-", deref(heap.rc, p), 0, 0, 0, FALSE, FALSE),
                    Ret("-", heap.arc.val[heap.arc.ptr[p]], 0, 0, 0, FALSE, FALSE))

\* p.needs_cloning_to_mutate(), p.is_unique()
PairQuery(p) ==
    /\ PairMayCall /\ PairPtr(p)
    /\ PairStep(heap.rc, heap.arc)
    /\ last' = Both("query",
                    Ret("-", NoValue, 0, 0, 0,
                        needs_cloning_to_mutate(heap.rc, p),
                        is_unique(heap.rc, p)),
                    Ret("-", NoValue, 0, 0, 0,
                        arc_needs_cloning_to_mutate(heap.arc, p),
                        arc_is_unique(heap.arc, p)))

\* *p += 1, *p *= 2 (DerefMut, AsMut)
PairMutate(p, f) ==
    /\ PairMayCall /\ PairPtr(p)
    /\ LET a1 == arc_call(arc_make_mut_begin(heap.arc, Main, p, f))
       IN  /\ PairStep(deref_mut(heap.rc, p, f), a1)
           /\ last' = Both("mutate",
                           Ret("-", NoValue, 0, 0, make_mut_dups(heap.rc, p),
                               FALSE, FALSE),
                           ArcRet(a1))

\* CowRc::downgrade(&p), CowArc::downgrade(&p)
PairDowngrade(p, w) ==
    /\ PairMayCall /\ PairPtr(p)
    /\ w = FreshObs(heap.rc)
    /\ LET a1 == arc_call(arc_downgrade_begin(heap.arc, Main, p))
       IN  /\ PairStep(downgrade(heap.rc, p, w), a1)
           /\ last' = Both("downgrade",
                           Ret("-", NoValue, 0, w, 0, FALSE, FALSE),
                           ArcRet(a1))

\* WeakCowRc::new(), WeakCowArc::new()
PairWeakNew(w) ==
    /\ PairMayCall
    /\ w = FreshObs(heap.rc)
    /\ PairStep(weak_new(heap.rc, w), arc_weak_new(heap.arc, FreshObs(heap.arc)))
    /\ last' = Both("weak_new", Ret("-", NoValue, 0, w, 0, FALSE, FALSE),
                    Ret("-", NoValue, 0, FreshObs(heap.arc), 0, FALSE, FALSE))

\* drop(w)
PairWeakDrop(w) ==
    /\ PairMayCall /\ PairObs(w)
    /\ PairStep(weak_drop(heap.rc, w), arc_weak_drop(heap.arc, w))
    /\ last' = Both("weak_drop", Ret("-", NoValue, 0, 0, 0, FALSE, FALSE),
                    Ret("-", NoValue, 0, 0, 0, FALSE, FALSE))

\* w.upgrade()
PairUpgrade(w) ==
    /\ PairMayCall /\ PairObs(w)
    /\ LET q == FreshPtr(heap.rc)
           r1 == IF upgrade_ok(heap.rc, w) THEN upgrade(heap.rc, w, q)
                 ELSE heap.rc
           a1 == arc_call(arc_upgrade_begin(heap.arc, Main, w))
       IN  /\ PairStep(r1, a1)
           /\ last' = Both("upgrade",
                           IF upgrade_ok(heap.rc, w)
                           THEN Ret("some", deref(r1, q), q, 0, 0, FALSE, FALSE)
                           ELSE Ret("none", NoValue, 0, 0, 0, FALSE, FALSE),
                           ArcRet(a1))

PairNext ==
    \/ \E p \in ArcPtrs, v \in Values : PairNew(p, v)
    \/ \E p \in ArcPtrs, q \in ArcPtrs : PairClone(p, q)
    \/ \E p \in ArcPtrs : PairDrop(p)
    \/ \E p \in ArcPtrs : PairBorrow(p)
    \/ \E p \in ArcPtrs : PairQuery(p)
    \/ \E p \in ArcPtrs, f \in MutOps : PairMutate(p, f)
    \/ \E p \in ArcPtrs, w \in ArcObs : PairDowngrade(p, w)
    \/ \E w \in ArcObs : PairWeakNew(w)
    \/ \E w \in ArcObs : PairWeakDrop(w)
    \/ \E w \in ArcObs : PairUpgrade(w)

PairSpec == PairInit /\ [][PairNext]_vars

\* C15: on the same single-threaded sequence of calls CowRc and CowArc
\* return the same results and are left with the same counts, the same
\* values and the same sharing: the same pointers and observers live, on
\* allocations made in the same order, with equal strong and weak counts,
\* equal values, equal answers of needs_cloning_to_mutate and is_unique, and
\* upgrades that succeed on the same observers.
C15_SameContract ==
    /\ last.rc = last.arc
    /\ heap.rc.ptr = heap.arc.ptr
    /\ heap.rc.obs = heap.arc.obs
    /\ heap.rc.val = heap.arc.val
    /\ heap.rc.slot = heap.arc.slot
    /\ heap.rc.mem = heap.arc.mem
    /\ \A p \in LivePtrs(heap.rc) :
          /\ strong_count(heap.rc, heap.rc.ptr[p])
                = arc_strong_count(heap.arc, heap.arc.ptr[p])
          /\ weak_count(heap.rc, heap.rc.ptr[p])
                = arc_weak_count(heap.arc, heap.arc.ptr[p])
          /\ deref(heap.rc, p) = heap.arc.val[heap.arc.ptr[p]]
          /\ needs_cloning_to_mutate(heap.rc, p)
                = arc_needs_cloning_to_mutate(heap.arc, p)
          /\ is_unique(heap.rc, p) = arc_is_unique(heap.arc, p)
    /\ \A w \in LiveObs(heap.rc) :
          upgrade_ok(heap.rc, w)
             = (heap.arc.obs[w] # Dangling /\ heap.arc.strong[heap.arc.obs[w]] > 0)

\* Both variants have moved a sole observed owner to a new allocation and
\* returned empty from the upgrade of its observer.
C15_Witness ==
    /\ last.op = "upgrade" /\ last.rc.res = "none" /\ last.arc.res = "none"
    /\ \E a \in ArcAllocs : heap.rc.slot[a] = "moved" /\ heap.arc.slot[a] = "moved"

\* ------------------------------------------------- cost of a call (C16)
\* The counter operations on the longest path of an operation that no other
\* thread interferes with: clone fetch_add; drop of an observer fetch_sub;
\* drop fetch_sub, fetch_sub; downgrade and upgrade load, compare_exchange;
\* make_mut compare_exchange, then fetch_sub, fetch_sub or load, fetch_sub or
\* load, store.
FixedOps(op) ==
    CASE op \in {"clone", "weak_drop"} -> 1
      [] op \in {"drop", "downgrade", "upgrade"} -> 2
      [] op = "mutate" -> 3
      [] OTHER -> 0

\* The operations that loop on compare_exchange.
Retrying == {"downgrade", "upgrade"}

\* Two more steps of thread t with every other thread standing still.
TwoSteps(h, t) == arc_step(arc_step(h, t), t)

\* The cost recorded in call record c is within what the amended claim allows.
WithinCost(c) ==
    /\ c.allocs <= 1
    /\ c.dup <= 1
    /\ c.op \notin Retrying => c.ops <= FixedOps(c.op)
    /\ c.op \in Retrying => c.ops <= heap.calls + 1

MutateReturns(t) ==
    heap.call[t].op = "mutate" /\ heap'.call[t].op = "idle"

\* The mutable accesses in flight in h.
Mutators(h) == {u \in Threads : h.call[u].op = "mutate"}

\* C20: a mutable access racing with upgrades never shares its view.  When
\* a mutable access returns, its pointer is the only pointer on the
\* allocation written, no observer references that allocation, no upgrade
\* in flight works on it, and no other allocation's value was written.  When
\* an upgrade returns a pointer, it is a pointer on the observer's (old)
\* allocation, which holds the value it held before the step, every mutable
\* access in flight ends on another allocation, and the observer has never
\* had an upgrade return empty before.
C20_MutateVersusUpgrade ==
    [][\A t \in Threads :
          /\ MutateReturns(t) =>
                LET p == heap.call[t].p
                    b == heap'.ptr[p]
                IN  /\ PtrsOn(heap', b) = {p}
                    /\ ObsOn(heap', b) = {}
                    /\ arc_is_unique(heap', p)
                    /\ \A u \in Threads :
                          heap'.call[u].op = "upgrade" => heap'.call[u].a # b
                    /\ \A a \in ArcAllocs \ {b} :
                          heap'.val[a] \in {heap.val[a], NoValue}
          /\ UpgradeReturns(t) /\ last'.res = "some" =>
                /\ last'.w \notin heap.spent
                /\ last'.a = heap.obs[last'.w]
                /\ heap'.ptr[last'.p] = last'.a
                /\ last'.val = heap.val[last'.a]
                /\ heap'.val[last'.a] = heap.val[last'.a]
                /\ \A u \in Mutators(heap') :
                      arc_run(heap', u).ptr[heap'.call[u].p] # last'.a]_vars

\* An upgrade has returned empty because it read the strong count while the
\* sole owner's mutable access, still in flight, held it at zero.
C20_Witness ==
    /\ last.op = "upgrade" /\ last.res = "none" /\ ~last.late
    /\ last.w \in heap.spent
    /\ \E u \in Mutators(heap) : heap.call[u].a = last.a

\* ====================================================================
\* Borrowed views and sequence-owning pointers (src/src/to_owned).  A slice
\* or str is a region of element cells; ToCowRcSlice / ToCowRcStr is a view
\* of a region somebody else owns (`heap.src`); CowRc<[T]> and CowRc<str>
\* own the region inside their allocation.  `heap.cell` is the memory,
\* `heap.top` the cells handed out so far, `heap.vec` the buffer of the Vec
\* a conversion is building, `heap.made` the element sequence each
\* allocation was built from, with the writes made since.
\* ====================================================================
\* The longest view.
MaxLen == 2

SlicePtrs == 1..MaxCalls
SliceAllocs == 1..MaxCalls
Cells == 1..(MaxLen * (2 * MaxCalls + 1))
Elems == Values

\* The sequences of at most n elements.
SeqsUpTo(n) == UNION {[1..k -> Elems] : k \in 0..n}

\* The cells base + 1 .. base + len.
Region(base, len) == [base |-> base, len |-> len]
NoRegion == Region(0, 0)
RegionCells(r) == {r.base + i : i \in 1..r.len}

\* The elements of a region, in order.
ReadSlice(h, r) == [i \in 1..r.len |-> h.cell[r.base + i]]

\* Elements i..n of the region at `from` are cloned, in order, into the
\* region at `to`.
RECURSIVE copy_elems(_, _, _, _, _)
copy_elems(h, from, to, i, n) ==
    IF i > n THEN h
    ELSE copy_elems([h EXCEPT !.cell[to + i] = h.cell[from + i]],
                    from, to, i + 1, n)

\* The elements of a region are dropped or given back.
free_elems(h, r) ==
    [h EXCEPT !.cell = [c \in Cells |-> IF c \in RegionCells(r) THEN NoValue
                                        ELSE h.cell[c]]]

\* A new RcBox<[T]> with room for n elements: strong 1, weak 1.
rc_alloc_slice(h, a, n) ==
    [h EXCEPT !.strong[a] = 1, !.weak[a] = 1, !.data[a] = Region(h.top, n),
              !.top = @ + n, !.na = a]

\* Defect: the pointer is made on the cells of the view.
rc_from_slice_aliased(h, p, r) ==
    LET a == h.na + 1
    IN  [h EXCEPT !.strong[a] = 1, !.weak[a] = 1, !.data[a] = r, !.na = a,
                  !.made[a] = ReadSlice(h, r),
                  !.ptr = Bind(h.ptr, p, a), !.np = p]

\* CowRc::from(&[T]) / CowRc::from(&str): Rc::<[T]>::from(&[T]) allocates
\* and clones every element (byte) of the view.
rc_from_slice(h, p, r) ==
    LET a == h.na + 1
        h1 == rc_alloc_slice(h, a, r.len)
        h2 == copy_elems(h1, r.base, h1.data[a].base, 1, r.len)
    IN  [h2 EXCEPT !.made[a] = ReadSlice(h, r),
                   !.ptr = Bind(h.ptr, p, a), !.np = p]

\* ToOwned for ToCowRcSlice, ToOwned for ToCowRcStr
slice_to_owned(h, p) == rc_from_slice(h, p, h.src)
str_to_owned(h, p) == rc_from_slice(h, p, h.src)

\* Defect: every item is put in front of the ones collected before.
vec_from_iter_reversed(h, r) ==
    LET v == Region(h.top, r.len)
    IN  [h EXCEPT !.top = @ + r.len, !.vec = v,
                  !.cell = [c \in Cells |->
                               IF c \in RegionCells(v)
                               THEN h.cell[r.base + r.len + 1 - (c - v.base)]
                               ELSE h.cell[c]]]

\* Vec::from_iter over the items of a view: a buffer, and every item pushed
\* in the order the iterator yields it.
vec_from_iter(h, r) ==
    LET v == Region(h.top, r.len)
    IN  copy_elems([h EXCEPT !.top = @ + r.len, !.vec = v],
                   r.base, v.base, 1, r.len)

\* CowRc::from(Vec<T>): Rc::<[T]>::from(Vec<T>) allocates, moves the
\* elements out of the buffer and gives the buffer back.
rc_from_vec(h, p, s) ==
    LET a == h.na + 1
        v == h.vec
        h1 == rc_alloc_slice(h, a, v.len)
        h2 == copy_elems(h1, v.base, h1.data[a].base, 1, v.len)
    IN  [free_elems(h2, v) EXCEPT !.vec = NoRegion, !.made[a] = s,
                                  !.ptr = Bind(h.ptr, p, a), !.np = p]

\* FromIterator for CowRc<[T]>: iter |> Vec::from_iter |> Self::from
from_iter(h, p, r) == rc_from_vec(vec_from_iter(h, r), p, ReadSlice(h, r))

\* Drop of a CowRc<[T]>: the elements go with the last strong reference.
slice_drop(h, p) ==
    LET a == h.ptr[p]
        h1 == [h EXCEPT !.ptr = Remove(h.ptr, p), !.strong[a] = @ - 1]
    IN  IF h1.strong[a] = 0
        THEN [free_elems(h1, h1.data[a]) EXCEPT !.weak[a] = @ - 1,
                                                !.data[a] = NoRegion]
        ELSE h1

\* From<CowRc<[T]>> for Vec<T>: value.deref().into() clones the elements
\* into a new buffer; `value` is dropped at the end.
vec_from_rc(h, p) ==
    slice_drop(vec_from_iter(h, h.data[h.ptr[p]]), p)

\* Deref for CowRc<[T]>
slice_deref(h, p) == ReadSlice(h, h.data[h.ptr[p]])

\* A write to element i of a region.
write_elem(h, r, i, f) == [h EXCEPT !.cell[r.base + i] = Apply(f, @)]

\* What an operation on views returned.
SliceOp(op, p, val) == [op |-> op, p |-> p, val |-> val]

\* let array: [T; n] = s; let view = ToCowRcSlice::from_slice(&array)
SliceInit ==
    /\ \E s \in SeqsUpTo(MaxLen) :
          heap = [cell |-> [c \in Cells |-> IF c <= Len(s) THEN s[c] ELSE NoValue],
                  top |-> Len(s),
                  src |-> Region(0, Len(s)),
                  vec |-> NoRegion,
                  strong |-> [a \in SliceAllocs |-> 0],
                  weak |-> [a \in SliceAllocs |-> 0],
                  data |-> [a \in SliceAllocs |-> NoRegion],
                  made |-> [a \in SliceAllocs |-> <<>>],
                  ptr |-> <<>>,
                  np |-> 0, na |-> 0, calls |-> 0]
    /\ last = SliceOp("init", 0, <<>>)
    /\ orphaned = {}

\* The step that takes the heap to h1 and returns r.
SliceStep(h1, r) ==
    /\ heap.calls < MaxCalls
    /\ heap' = Called(h1)
    /\ last' = r
    /\ UNCHANGED orphaned

\* let p = view.to_owned()
SliceToOwned(p) ==
    /\ p = FreshPtr(heap)
    /\ SliceStep(slice_to_owned(heap, p), SliceOp("to_owned", p, <<>>))

\* let p = text.to_owned()
StrToOwned(p) ==
    /\ p = FreshPtr(heap)
    /\ SliceStep(str_to_owned(heap, p), SliceOp("str_to_owned", p, <<>>))

\* let p: CowRc<[T]> = view.iter().cloned().collect()
SliceFromIter(p) ==
    /\ p = FreshPtr(heap)
    /\ SliceStep(from_iter(heap, p, heap.src), SliceOp("from_iter", p, <<>>))

\* let q = p.clone()
SliceClone(p, q) ==
    /\ p \in LivePtrs(heap)
    /\ q = FreshPtr(heap)
    /\ SliceStep([heap EXCEPT !.strong[heap.ptr[p]] = @ + 1,
                              !.ptr = Bind(heap.ptr, q, heap.ptr[p]),
                              !.np = q],
                 SliceOp("clone", q, <<>>))

\* &*p
SliceBorrow(p) ==
    /\ p \in LivePtrs(heap)
    /\ SliceStep(heap, SliceOp("borrow", p, slice_deref(heap, p)))

\* let buffer = Vec::from(p)
SliceIntoVec(p) ==
    /\ p \in LivePtrs(heap)
    /\ LET h1 == vec_from_rc(heap, p)
       IN  SliceStep([h1 EXCEPT !.vec = NoRegion],
                     SliceOp("into_vec", p, ReadSlice(h1, h1.vec)))

\* Rc::get_mut(CowRc::as_rc_mut(&mut p)).unwrap()[i] is written
SliceWrite(p, i, f) ==
    /\ p \in LivePtrs(heap)
    /\ heap.strong[heap.ptr[p]] = 1 /\ heap.weak[heap.ptr[p]] = 1
    /\ i \in 1..heap.data[heap.ptr[p]].len
    /\ SliceStep([write_elem(heap, heap.data[heap.ptr[p]], i, f)
                     EXCEPT !.made[heap.ptr[p]][i] = Apply(f, @)],
                 SliceOp("write", p, <<>>))

\* array[i] is written by its owner (ToCowRcSlice::from_slice_mut)
SrcWrite(i, f) ==
    /\ i \in 1..heap.src.len
    /\ SliceStep(write_elem(heap, heap.src, i, f), SliceOp("src_write", 0, <<>>))

SliceNext ==
    \/ \E p \in SlicePtrs : SliceToOwned(p)
    \/ \E p \in SlicePtrs : StrToOwned(p)
    \/ \E p \in SlicePtrs : SliceFromIter(p)
    \/ \E p \in SlicePtrs, q \in SlicePtrs : SliceClone(p, q)
    \/ \E p \in SlicePtrs : SliceBorrow(p)
    \/ \E p \in SlicePtrs : SliceIntoVec(p)
    \/ \E p \in SlicePtrs, i \in 1..MaxLen, f \in MutOps : SliceWrite(p, i, f)
    \/ \E i \in 1..MaxLen, f \in MutOps : SrcWrite(i, f)

SliceSpec == SliceInit /\ [][SliceNext]_vars

\* The step is a call of operation op.
SliceCall(op) == heap'.calls = heap.calls + 1 /\ last'.op = op

\* The regions of the allocations that hold elements in h, and the view.
Owned(h) == {a \in SliceAllocs : h.strong[a] > 0}
Disjoint(r1, r2) == RegionCells(r1) \cap RegionCells(r2) = {}

\* In the step no allocation other than those of `except` has its elements
\* changed.
OthersKept(except) ==
    \A a \in Owned(heap) \ except :
       ReadSlice(heap', heap'.data[a]) = ReadSlice(heap, heap.data[a])

\* C17: to_owned on a view of a slice or of a str returns a pointer on an
\* allocation made in the call, strong_count 1 and weak_count 0, with the
\* elements of the view in the same number and order, on cells that neither
\* the view nor any other allocation uses; the view and the other
\* allocations are unchanged.  A later write through the result changes
\* neither the viewed data nor another allocation, and a write to the viewed
\* data changes no allocation.
C17_ToOwnedFresh ==
    [][/\ SliceCall("to_owned") \/ SliceCall("str_to_owned") =>
             LET a == heap'.ptr[last'.p]
             IN  /\ a \notin 1..heap.na
                 /\ heap'.strong[a] = 1
                 /\ heap'.weak[a] - 1 = 0
                 /\ PtrsOn(heap', a) = {last'.p}
                 /\ heap'.data[a].len = heap.src.len
                 /\ ReadSlice(heap', heap'.data[a]) = ReadSlice(heap, heap.src)
                 /\ heap'.src = heap.src
                 /\ ReadSlice(heap', heap'.src) = ReadSlice(heap, heap.src)
                 /\ Disjoint(heap'.data[a], heap'.src)
                 /\ \A b \in Owned(heap') \ {a} :
                       Disjoint(heap'.data[a], heap'.data[b])
                 /\ OthersKept({})
       /\ SliceCall("write") =>
             /\ ReadSlice(heap', heap'.src) = ReadSlice(heap, heap.src)
             /\ OthersKept({heap.ptr[last'.p]})
       /\ SliceCall("src_write") => OthersKept({})]_vars

\* to_owned has returned a pointer holding the two or more elements of the
\* view, while an older pointer holds elements that differ from them.
C17_Witness ==
    /\ last.op = "to_owned"
    /\ heap.src.len > 1
    /\ slice_deref(heap, last.p) = ReadSlice(heap, heap.src)
    /\ \E q \in LivePtrs(heap) :
          /\ heap.data[heap.ptr[q]].len = heap.src.len
          /\ slice_deref(heap, q) # ReadSlice(heap, heap.src)

\* C18: the pointer collected from an iterator over s holds s, and the
\* buffer made from a pointer holds, in the same number and order, the
\* elements the pointer was made from (with the writes made through it
\* since); borrowing a pointer made from a value returns that value.
C18_RoundTrip ==
    [][/\ SliceCall("from_iter") =>
             /\ heap'.made[heap'.ptr[last'.p]] = ReadSlice(heap, heap.src)
             /\ slice_deref(heap', last'.p) = ReadSlice(heap, heap.src)
       /\ SliceCall("to_owned") \/ SliceCall("str_to_owned") =>
             heap'.made[heap'.ptr[last'.p]] = ReadSlice(heap, heap.src)
       /\ SliceCall("into_vec") =>
             /\ last'.val = heap.made[heap.ptr[last'.p]]
             /\ Len(last'.val) = heap.data[heap.ptr[last'.p]].len
       /\ SliceCall("borrow") =>
             last'.val = heap.made[heap.ptr[last'.p]]]_vars

\* A buffer of two different elements has been made from a pointer.
C18_Witness ==
    /\ last.op = "into_vec"
    /\ Len(last.val) > 1
    /\ last.val[1] # last.val[Len(last.val)]

\* ====================================================================
\* Conservation of values (CowRc, src/src/rc.rs)
\* ====================================================================
\* The allocations that hold a value in h.
Holding(h) == {a \in Allocs : h.slot[a] = "value"}

\* The value slot of allocation a changes in the step, from state x to y.
SlotGoes(a, x, y) == heap.slot[a] = x /\ heap'.slot[a] = y

\* C21: values are conserved and dropped exactly once.  A value slot is
\* filled once, when its allocation is made by new or by a mutable access,
\* and emptied once: dropped by the release of the last strong reference, or
\* moved out by the mutable access of a sole observed owner, after which the
\* new allocation holds that value (with the write), no value was created
\* or dropped, and the old allocation (strong_count 0, weak_count > 0) holds
\* nothing that a later drop of its observers could drop.  The memory of an
\* allocation is reclaimed once.  When every pointer and observer has been
\* dropped, every allocation made has been reclaimed and holds no value:
\* each value was dropped once where it was, or moved on and dropped there.
C21_ValuesConserved ==
    [][/\ \A a \in Allocs :
             /\ heap'.slot[a] # heap.slot[a] =>
                   \/ SlotGoes(a, "empty", "value")
                   \/ SlotGoes(a, "value", "dropped")
                   \/ SlotGoes(a, "value", "moved")
             /\ heap'.mem[a] # heap.mem[a] =>
                   \/ heap.mem[a] = "unused" /\ heap'.mem[a] = "live"
                   \/ heap.mem[a] = "live" /\ heap'.mem[a] = "reclaimed"
             /\ SlotGoes(a, "empty", "value") =>
                   /\ last'.op \in {"new", "mutate"}
                   /\ a = FreshAlloc(heap)
                   /\ heap'.ptr[last'.p] = a
             /\ SlotGoes(a, "value", "dropped") =>
                   /\ last'.op \in {"drop", "mutate"}
                   /\ strong_count(heap, a) = 1
                   /\ strong_count(heap', a) = 0
                   /\ heap'.val[a] = NoValue
             /\ SlotGoes(a, "value", "moved") =>
                   /\ last'.op = "mutate" /\ last'.dup = 0
                   /\ heap.ptr[last'.p] = a
                   /\ strong_count(heap, a) = 1 /\ weak_count(heap, a) > 0
                   /\ strong_count(heap', a) = 0
                   /\ weak_count(heap', a) = weak_count(heap, a)
                   /\ heap'.val[a] = NoValue
                   /\ heap'.mem[a] = "live"
                   /\ SlotGoes(heap'.ptr[last'.p], "empty", "value")
                   /\ deref(heap', last'.p) = Apply(last'.f, heap.val[a])
                   /\ Cardinality(Holding(heap')) = Cardinality(Holding(heap))
             /\ heap'.slot[a] = "value" <=> heap'.val[a] # NoValue
       /\ last'.op = "weak_drop" =>
             /\ heap'.slot = heap.slot
             /\ heap'.val = heap.val
       /\ last'.op = "mutate" /\ heap' # heap =>
             Cardinality(Holding(heap')) = Cardinality(Holding(heap)) + last'.dup
                - Cardinality({a \in Allocs : SlotGoes(a, "value", "dropped")})
       /\ LivePtrs(heap') = {} /\ LiveObs(heap') = {} =>
             /\ Holding(heap') = {}
             /\ \A a \in Created(heap') :
                   /\ heap'.mem[a] = "reclaimed"
                   /\ heap'.slot[a] \in {"dropped", "moved"}
                   /\ heap'.val[a] = NoValue
                   /\ heap'.strong[a] = 0 /\ heap'.weak[a] = 0
    ]_vars

\* A sole observed owner took mutable access, and then every pointer and
\* observer was dropped: the old allocation was moved out of, the new one
\* had its value dropped, both are reclaimed.
C21_Witness ==
    /\ LivePtrs(heap) = {} /\ LiveObs(heap) = {}
    /\ \E a \in Created(heap), b \in Created(heap) :
          /\ heap.slot[a] = "moved" /\ heap.mem[a] = "reclaimed"
          /\ heap.slot[b] = "dropped" /\ heap.mem[b] = "reclaimed"
====
